---- MODULE Spec2Model ----
(***************************************************************************)
(* Model of vs-muxtools' resumable encode (SupportsQP.encode, merge_parts, *)
(* parse_keyframes) and of the SVT-AV1 keyframe aligner                    *)
(* (generate_svt_av1_keyframes).                                           *)
(***************************************************************************)
EXTENDS Integers, Sequences, FiniteSets, TLC

VARIABLES
    disk,           \* working directory: path -> file content
    pc,             \* position of the encode() invocation
    parts,          \* encode(): list of kept part ordinals
    keyframes,      \* encode(): last-keyframe index of each valid part
    fout,           \* encode(): ordinal of the part written by this invocation
    start_frame,    \* encode(): first clip frame handed to the encoder
    mkv_parts,      \* merge_parts(): containers to append, in order
    to_delete,      \* merge_parts(): _to_delete
    split_i,        \* merge_parts(): position in zip(keyframes, parts)
    scanned,        \* directory listing seen by the glob of this invocation
    faults,         \* remux failures and kills inside merge_parts so far
    rc,             \* merge_parts(): exit status of the last run_commandline call
    returncode,     \* _encode_clip(): process.returncode of the encoder
    apc,            \* position of generate_svt_av1_keyframes
    clip_len,       \* len(clip)
    min_scene_length,
    min_still_scene_length,
    max_scene_length,
    diff_clip,      \* LumaDiff of every frame of diff_clip
    frames,         \* generate_keyframes result with len(clip) appended
    head,
    current_frame,
    svt_av1_frames,
    earlier,        \* list returned by the previous call, <<>> before the first
    workdir,        \* get_workdir(): cache path -> cache file
    job,            \* the last call that consulted a cache, and what it used
    other,          \* locals of a second encode() invocation while it is not running
    zpc,            \* position of the zone handling of _encode_clip
    zones,          \* self.zones
    user_zones,     \* the zones the encoder object was created with
    num_frames,     \* frames of the clip given to encode()
    resume_at       \* start_frame of the invocation that handles the zones

evars == <<disk, pc, parts, keyframes, fout, start_frame, mkv_parts, to_delete, split_i, scanned, faults, rc, returncode>>

avars == <<apc, clip_len, min_scene_length, min_still_scene_length, max_scene_length,
           diff_clip, frames, head, current_frame, svt_av1_frames, earlier>>

cvars == <<workdir, job>>

ovars == <<other>>

zvars == <<zpc, zones, user_zones, num_frames, resume_at>>

vars == <<evars, avars, cvars, ovars, zvars>>

\* Number of frames of the clip handed to encode().
NumFrames == 3

\* Highest part ordinal the working directory can hold.
MaxOrd == NumFrames

Ords == 0 .. MaxOrd

\* A three-character suffix that is not a decimal number, as in
\* {stem}_part_old.{ext}; it sorts after every digit suffix.
OldSuffix == MaxOrd + 1

\* The suffixes the glob pattern "_part_???" matches.
Suffixes == Ords \cup {OldSuffix}

\* ------------------------------------------------------------------------
\* Files and paths
\* ------------------------------------------------------------------------

\* A video file: the clip frames it holds, in order, and the indices (within
\* the file) of its I frames.
File(fr, ifr) == [exists |-> TRUE, frames |-> fr, iframes |-> ifr]

NoFile == [exists |-> FALSE, frames |-> <<>>, iframes |-> {}]

\* out.with_stem(out.stem + "_part_NNN")
PartPath(n) == <<"part", n>>

\* part.with_suffix(".mkv")
AsMkv(n) == <<"part.mkv", n>>

\* as_mkv.with_stem(as_mkv.stem + "-001")
Mkv001(n) == <<"part-001.mkv", n>>

\* as_mkv.with_stem(as_mkv.stem + "-002")
Mkv002(n) == <<"part-002.mkv", n>>

OutPath == <<"out", 0>>

\* original_out.with_suffix(".mkv")
OutMkv == <<"out.mkv", 0>>

Paths ==
    {PartPath(n) : n \in Suffixes} \cup {AsMkv(n) : n \in Suffixes}
        \cup {Mkv001(n) : n \in Suffixes} \cup {Mkv002(n) : n \in Suffixes}
        \cup {OutPath, OutMkv}

Min(a, b) == IF a < b THEN a ELSE b

Max(a, b) == IF a > b THEN a ELSE b

RECURSIVE SumSeq(_)
SumSeq(s) == IF s = <<>> THEN 0 ELSE s[1] + SumSeq(Tail(s))

RECURSIVE SortedSeq(_)
\* sorted(...) of a set of integers
SortedSeq(S) ==
    IF S = {} THEN <<>>
    ELSE LET m == CHOOSE x \in S : \A y \in S : x <= y
         IN <<m>> \o SortedSeq(S \ {m})

Range(s) == {s[k] : k \in 1 .. Len(s)}

\* <<a, a+1, ..., b-1>>
FrameRun(a, b) == [k \in 1 .. (b - a) |-> a + k - 1]

\* ------------------------------------------------------------------------
\* parse_keyframes and the discovery loop of encode()
\* ------------------------------------------------------------------------

\* parse_keyframes(file): indices of the frames ffprobe reports as "I".
parse_keyframes(f) == SortedSeq(f.iframes)

\* parse_keyframes(p)[-1] raises IndexError on an empty list.
ProbeRaises(f) == parse_keyframes(f) = <<>>

LastKeyframe(f) == LET k == parse_keyframes(f) IN k[Len(k)]

\* sorted(pattern.parent.glob(pattern.name))
DiscoverParts(d) == SortedSeq({n \in Suffixes : d[PartPath(n)].exists})

RECURSIVE ScanLoop(_, _, _, _)
\* for i, p in enumerate(parts): the list iterator re-reads len(parts) on
\* every step, and both rejecting branches run `del parts[-1]`.
ScanLoop(d, ps, kfs, i) ==
    IF i >= Len(ps) THEN [parts |-> ps, keyframes |-> kfs]
    ELSE LET f == d[PartPath(ps[i + 1])]
         IN IF ProbeRaises(f)
            THEN ScanLoop(d, SubSeq(ps, 1, Len(ps) - 1), kfs, i + 1)
            ELSE IF LastKeyframe(f) = 0
                 THEN ScanLoop(d, SubSeq(ps, 1, Len(ps) - 1), kfs, i + 1)
                 ELSE ScanLoop(d, ps, Append(kfs, LastKeyframe(f)), i + 1)

\* A resume point that forgets all parts but the last one.
ResumePoint_LastOnly(kfs) == IF kfs = <<>> THEN 0 ELSE kfs[Len(kfs)]

\* start_frame = sum(keyframes)
ResumePoint(kfs) == SumSeq(kfs)

\* A new part numbered one past the count of kept parts.
PartOrdinal_Skipping(ps) == Len(ps) + 1

\* fout = out.with_stem(out.stem + f"_part_{len(parts):03.0f}")
PartOrdinal(ps) == Len(ps)

NoLocals ==
    /\ parts' = <<>>
    /\ keyframes' = <<>>
    /\ fout' = 0
    /\ start_frame' = 0
    /\ mkv_parts' = <<>>
    /\ to_delete' = {}
    /\ split_i' = 0
    /\ scanned' = <<>>
    /\ rc' = 0
    /\ returncode' = 0

\* encode(): glob, validation loop, fout, start_frame, clip[start_frame:].
\* Slicing a clip at or past its end raises.
Scan ==
    /\ pc = "idle"
    /\ LET r == ScanLoop(disk, DiscoverParts(disk), <<>>, 0)
       IN /\ parts' = r.parts
          /\ keyframes' = r.keyframes
          /\ fout' = PartOrdinal(r.parts)
          /\ start_frame' = ResumePoint(r.keyframes)
          /\ pc' = IF ResumePoint(r.keyframes) >= NumFrames THEN "failed" ELSE "spawn"
    /\ scanned' = DiscoverParts(disk)
    /\ UNCHANGED <<disk, mkv_parts, to_delete, split_i, faults, rc, returncode, avars, cvars, ovars, zvars>>

\* ------------------------------------------------------------------------
\* _encode_clip: the encoder process
\* ------------------------------------------------------------------------

\* The encoder opens (creates or truncates) its output file.
EncoderOpen ==
    /\ pc = "spawn"
    /\ disk' = [disk EXCEPT ![PartPath(fout)] = File(<<>>, {})]
    /\ pc' = "encoding"
    /\ UNCHANGED <<parts, keyframes, fout, start_frame, mkv_parts, to_delete, split_i, scanned, faults, rc, returncode, avars, cvars, ovars, zvars>>

\* The encoder flushes the next frame of clip[start_frame:]; the first frame
\* of a stream is always an I frame, later ones as the encoder decides.
EncoderWrite ==
    /\ pc = "encoding"
    /\ LET f == disk[PartPath(fout)]
           n == Len(f.frames)
       IN /\ start_frame + n < NumFrames
          /\ \E isI \in BOOLEAN :
                /\ (n = 0) => isI
                /\ disk' = [disk EXCEPT ![PartPath(fout)] =
                              File(Append(f.frames, start_frame + n),
                                   IF isI THEN f.iframes \cup {n} ELSE f.iframes)]
    /\ UNCHANGED <<pc, parts, keyframes, fout, start_frame, mkv_parts, to_delete, split_i, scanned, faults, rc, returncode, avars, cvars, ovars, zvars>>

\* process.communicate() returns after the whole clip was consumed.
EncoderExit ==
    /\ pc = "encoding"
    /\ start_frame + Len(disk[PartPath(fout)].frames) = NumFrames
    /\ returncode' = 0
    /\ pc' = "merge"
    /\ UNCHANGED <<disk, parts, keyframes, fout, start_frame, mkv_parts, to_delete, split_i, scanned, faults, rc, avars, cvars, ovars, zvars>>

\* The job is killed while the encoder process is running; the next
\* invocation starts from the directory alone.
KillEncoder ==
    /\ pc \in {"spawn", "encoding"}
    /\ faults = 0
    /\ pc' = "idle"
    /\ NoLocals
    /\ UNCHANGED <<disk, faults, avars, cvars, ovars, zvars>>

\* The encoder process exits with a failure status. When it dies with frames
\* still to be piped, clip.output raises on the closed pipe and encode()
\* ends with that exception; when it has consumed its whole input (and
\* flushed any part of it), clip.output and process.communicate() return and
\* _encode_clip returns out: process.returncode is not read.
EncoderFails ==
    /\ pc = "encoding"
    /\ returncode' = 1
    /\ \/ /\ start_frame + Len(disk[PartPath(fout)].frames) < NumFrames
          /\ pc' = "failed"
       \/ pc' = "merge"
    /\ UNCHANGED <<disk, parts, keyframes, fout, start_frame, mkv_parts, to_delete, split_i, scanned, faults, rc, avars, cvars, ovars, zvars>>

\* ------------------------------------------------------------------------
\* merge_parts
\* ------------------------------------------------------------------------

\* An unlink loop that removes the part files only.
Unlinked_PartsOnly(d, S) ==
    [p \in Paths |-> IF p \in S /\ p[1] = "part" THEN NoFile ELSE d[p]]

\* Exit statuses of mkvmerge and mkvextract: success, warnings, error.
ExitStatuses == {0, 1, 2}

\* A test that takes every non-zero exit status for a failure.
Failed_NonZero(st) == st # 0

\* if run_commandline(args, quiet) > 1: raise error(...)
Failed(st) == st > 1

\* The directory after unlinking every path of S.
Unlinked(d, S) == [p \in Paths |-> IF p \in S THEN NoFile ELSE d[p]]

\* Number of pairs produced by zip(keyframes, parts)
ZipLen == Min(Len(keyframes), Len(parts))

\* A split that keeps the frame at the split point in the first output.
SplitFirst_KeepsKeyframe(f, kf) ==
    File(SubSeq(f.frames, 1, Min(kf + 1, Len(f.frames))), {})

\* mkvmerge -o as_mkv --split frames:kf part: the first output holds the
\* first kf frames, the second the rest.
SplitFirst(f, kf) == File(SubSeq(f.frames, 1, Min(kf, Len(f.frames))), {})

SplitSecond(f, kf) ==
    IF kf < Len(f.frames)
    THEN File(SubSeq(f.frames, kf + 1, Len(f.frames)), {})
    ELSE NoFile

\* One iteration of `for kf, part in zip(keyframes, parts)`.
MergeSplit ==
    /\ pc = "merge"
    /\ split_i < ZipLen
    /\ LET kf == keyframes[split_i + 1]
           p == parts[split_i + 1]
           f == disk[PartPath(p)]
       IN IF f.frames = <<>>
          THEN \* mkvmerge cannot read the part: exit status 2
               /\ rc' \in {st \in ExitStatuses : Failed(st)}
               /\ pc' = "merge_failed"
               /\ UNCHANGED <<disk, mkv_parts, to_delete, split_i>>
          ELSE /\ rc' \in {st \in ExitStatuses : ~Failed(st)}
               /\ disk' = [disk EXCEPT ![Mkv001(p)] = SplitFirst(f, kf),
                                       ![Mkv002(p)] = SplitSecond(f, kf)]
               /\ mkv_parts' = Append(mkv_parts, Mkv001(p))
               /\ to_delete' = to_delete \cup {Mkv001(p), Mkv002(p)}
               /\ split_i' = split_i + 1
               /\ pc' = "merge"
    /\ UNCHANGED <<parts, keyframes, fout, start_frame, scanned, faults, returncode, avars, cvars, ovars, zvars>>

\* len(mkv_parts) < 1: unlink every listed part, rename last to the output.
MergeNoParts ==
    /\ pc = "merge"
    /\ split_i = ZipLen
    /\ Len(mkv_parts) < 1
    /\ LET gone == {PartPath(parts[k]) : k \in 1 .. Len(parts)}
           d1 == Unlinked(disk, gone)
       IN IF d1[PartPath(fout)].exists
          THEN /\ disk' = [d1 EXCEPT ![OutPath] = d1[PartPath(fout)],
                                     ![PartPath(fout)] = NoFile]
               /\ pc' = "done"
          ELSE \* last.rename raises FileNotFoundError
               /\ disk' = d1
               /\ pc' = "failed"
    /\ to_delete' = {}
    /\ UNCHANGED <<parts, keyframes, fout, start_frame, mkv_parts, split_i, scanned, faults, rc, returncode, avars, cvars, ovars, zvars>>

\* mkvmerge -o last_mkv last
MergeRemuxLast ==
    /\ pc = "merge"
    /\ split_i = ZipLen
    /\ Len(mkv_parts) >= 1
    /\ disk' = [disk EXCEPT ![AsMkv(fout)] = File(disk[PartPath(fout)].frames, {})]
    /\ mkv_parts' = Append(mkv_parts, AsMkv(fout))
    /\ to_delete' = to_delete \cup {PartPath(parts[k]) : k \in 1 .. Len(parts)}
                        \cup {AsMkv(fout), PartPath(fout)}
    /\ rc' \in {st \in ExitStatuses : ~Failed(st)}
    /\ pc' = "concat"
    /\ UNCHANGED <<parts, keyframes, fout, start_frame, split_i, scanned, faults, returncode, avars, cvars, ovars, zvars>>

RECURSIVE ConcatFrames(_, _)
\* mkvmerge -o out_mkv p1 + p2 + ...: the parts appended in list order
ConcatFrames(d, ps) ==
    IF ps = <<>> THEN <<>> ELSE d[ps[1]].frames \o ConcatFrames(d, Tail(ps))

MergeConcat ==
    /\ pc = "concat"
    /\ disk' = [disk EXCEPT ![OutMkv] = File(ConcatFrames(disk, mkv_parts), {})]
    /\ rc' \in {st \in ExitStatuses : ~Failed(st)}
    /\ pc' = "extract"
    /\ UNCHANGED <<parts, keyframes, fout, start_frame, mkv_parts, to_delete, split_i, scanned, faults, returncode, avars, cvars, ovars, zvars>>

\* mkvextract out_mkv tracks 0:original_out, then _to_delete.add(out_mkv)
MergeExtract ==
    /\ pc = "extract"
    /\ disk' = [disk EXCEPT ![OutPath] = File(disk[OutMkv].frames, {})]
    /\ to_delete' = to_delete \cup {OutMkv}
    /\ rc' \in {st \in ExitStatuses : ~Failed(st)}
    /\ pc' = "cleanup"
    /\ UNCHANGED <<parts, keyframes, fout, start_frame, mkv_parts, split_i, scanned, faults, returncode, avars, cvars, ovars, zvars>>

\* for f in _to_delete: f.unlink(True)
MergeCleanup ==
    /\ pc = "cleanup"
    /\ disk' = Unlinked(disk, to_delete)
    /\ to_delete' = {}
    /\ pc' = "done"
    /\ UNCHANGED <<parts, keyframes, fout, start_frame, mkv_parts, split_i, scanned, faults, rc, returncode, avars, cvars, ovars, zvars>>

\* ------------------------------------------------------------------------
\* generate_svt_av1_keyframes
\* ------------------------------------------------------------------------

\* for structure in [32, 16, 8, 4, 2] (hint window)
Structures_Ascending == <<2, 4, 8, 16, 32>>

Structures == <<32, 16, 8, 4, 2>>

\* for structure in [32, 16, 8] (fallback)
FallbackStructures_All == <<32, 16, 8, 4, 2>>

FallbackStructures == <<32, 16, 8>>

\* sliding_window_view(diffs, 25)
WindowSize == 25

\* np.full((12,), thr[0]) and np.full((12,), thr[-1])
PadSize == 12

\* median + 3.0 * mad
MadFactor == 3

\* A keyframe list that starts empty.
InitialKeyframes_Empty == <<>>

\* svt_av1_frames = [0]
InitialKeyframes == <<0>>

\* frames[k] for a 0-based index k
At(fr, k) == fr[k + 1]

RECURSIVE AvailableFrames(_, _, _, _)
\* for looka_head in range(head, len(frames)): collect while within
\* max_scene_length of c, break at the first entry beyond it.
AvailableFrames(fr, k, c, maxlen) ==
    IF k >= Len(fr) THEN <<>>
    ELSE IF At(fr, k) - c <= maxlen
         THEN <<At(fr, k)>> \o AvailableFrames(fr, k + 1, c, maxlen)
         ELSE <<>>

RECURSIVE ScanBack(_, _, _, _)
\* for available_head in range(len - 1, -1, -1): the first (latest) index
\* whose offset from c is 1 modulo structure; -1 when there is none.
ScanBack(av, k, c, structure) ==
    IF k < 0 THEN -1
    ELSE IF (At(av, k) - c) % structure = 1 THEN k
         ELSE ScanBack(av, k - 1, c, structure)

RECURSIVE SelectHead(_, _, _)
\* The structure loop of the hint window: selected_head, or -1 for None.
SelectHead(av, c, structs) ==
    IF structs = <<>> THEN -1
    ELSE LET k == ScanBack(av, Len(av) - 1, c, structs[1])
         IN IF k # -1 THEN k ELSE SelectHead(av, c, Tail(structs))

\* selected_head after `if selected_head is None`
SelectedHead(av, c) ==
    LET k == SelectHead(av, c, Structures)
    IN IF k = -1 THEN Len(av) - 1 ELSE k

\* A slice that starts at the current position.
Diffs_FromCurrent(dc, n, c, still, maxlen) ==
    LET b == Min(c + maxlen + 1, n)
    IN [j \in 1 .. Max(b - c, 0) |-> dc[c + j]]

\* diff_clip[c + min_still : c + max + 1]: the LumaDiff samples, 0-based
\* sample j being frame c + min_still + j; slices stop at the clip end.
Diffs(dc, n, c, still, maxlen) ==
    LET a == c + still
        b == Min(c + maxlen + 1, n)
    IN [j \in 1 .. Max(b - a, 0) |-> dc[a + j]]

\* np.median of an odd number of samples: the middle one
Median(w) ==
    LET half == (Len(w) - 1) \div 2
    IN CHOOSE v \in Range(w) :
          /\ Cardinality({k \in 1 .. Len(w) : w[k] < v}) <= half
          /\ Cardinality({k \in 1 .. Len(w) : w[k] <= v}) >= half + 1

\* np.abs(windows - median)
AbsDev(w, m) == [k \in 1 .. Len(w) |-> IF w[k] >= m THEN w[k] - m ELSE m - w[k]]

\* thr of the window starting at sample i (0-based): median + 3.0 * mad
WindowThr(d, i) ==
    LET w == SubSeq(d, i + 1, i + WindowSize)
        median == Median(w)
        mad == Median(AbsDev(w, median))
    IN median + MadFactor * mad

\* thr after np.concatenate: 12 copies of thr[0], thr, 12 copies of thr[-1]
PaddedThr(d, j) ==
    LET nwin == Len(d) - WindowSize + 1
    IN IF j < PadSize THEN WindowThr(d, 0)
       ELSE IF j >= PadSize + nwin THEN WindowThr(d, nwin - 1)
       ELSE WindowThr(d, j - PadSize)

\* np.argwhere(diffs > thr) + current_frame + min_still_scene_length:
\* the motion frames, ascending
MotionFrames(dc, n, c, still, maxlen) ==
    LET d == Diffs(dc, n, c, still, maxlen)
    IN SortedSeq({c + still + j : j \in {i \in 0 .. Len(d) - 1 : d[i + 1] > PaddedThr(d, i)}})

RECURSIVE SelectFrame(_, _, _)
\* The structure loop of the fallback, each structure scanning
\* motion_frames[::-1]: selected_frame, or -1 for None.
SelectFrame(motion, c, structs) ==
    IF structs = <<>> THEN -1
    ELSE LET k == ScanBack(motion, Len(motion) - 1, c, structs[1])
         IN IF k # -1 THEN At(motion, k) ELSE SelectFrame(motion, c, Tail(structs))

\* A forced cut that stays at the current position.
ForcedCut_Stalled(c, maxlen) == c

\* A forced cut one frame late.
ForcedCut_Late(c, maxlen) == c + maxlen + 1

\* selected_frame = current_frame + max_scene_length
ForcedCut(c, maxlen) == c + maxlen

\* selected_frame after `if selected_frame is None`
SelectedFrame(dc, n, c, still, maxlen) ==
    LET motion == MotionFrames(dc, n, c, still, maxlen)
        m == IF Len(motion) # 0 THEN SelectFrame(motion, c, FallbackStructures) ELSE -1
    IN IF m = -1 THEN ForcedCut(c, maxlen) ELSE m

\* sliding_window_view raises ValueError when the window is larger than the
\* array.
WindowRaises(dc, n, c, still, maxlen) ==
    Len(Diffs(dc, n, c, still, maxlen)) < WindowSize

\* A test that takes the last hint for the last entry.
IsLastEntry_LastHint(fr, h) == h >= Len(fr) - 2

\* head == len(frames) - 1: the entry is the appended len(clip)
IsLastEntry(fr, h) == h = Len(fr) - 1

\* A loop that stops one entry early.
LoopRuns_StopsEarly == apc = "loop" /\ head < Len(frames) - 2

\* while head < len(frames) - 1
LoopRuns == apc = "loop" /\ head < Len(frames) - 1

\* A hint closer than min_scene_length that is not the last entry: continue.
AlignSkip ==
    /\ LoopRuns
    /\ LET h == head + 1
       IN /\ At(frames, h) - current_frame < min_scene_length
          /\ ~IsLastEntry(frames, h)
          /\ head' = h
    /\ UNCHANGED <<apc, clip_len, min_scene_length, min_still_scene_length, max_scene_length,
                   diff_clip, frames, current_frame, svt_av1_frames, earlier, evars, cvars, ovars, zvars>>

\* The last entry, closer than min_scene_length: appended, "only to get
\* popped".
AlignAcceptLast ==
    /\ LoopRuns
    /\ LET h == head + 1
       IN /\ At(frames, h) - current_frame < min_scene_length
          /\ IsLastEntry(frames, h)
          /\ head' = h
          /\ current_frame' = At(frames, h)
          /\ svt_av1_frames' = Append(svt_av1_frames, At(frames, h))
    /\ UNCHANGED <<apc, clip_len, min_scene_length, min_still_scene_length, max_scene_length,
                   diff_clip, frames, earlier, evars, cvars, ovars, zvars>>

\* The next entry lies within [min_scene_length, max_scene_length].
AlignHintWindow ==
    /\ LoopRuns
    /\ LET h == head + 1
           available_frames == AvailableFrames(frames, h, current_frame, max_scene_length)
           selected_head == SelectedHead(available_frames, current_frame)
       IN /\ At(frames, h) - current_frame >= min_scene_length
          /\ At(frames, h) - current_frame <= max_scene_length
          /\ head' = h + selected_head
          /\ current_frame' = At(frames, h + selected_head)
          /\ svt_av1_frames' = Append(svt_av1_frames, At(frames, h + selected_head))
    /\ UNCHANGED <<apc, clip_len, min_scene_length, min_still_scene_length, max_scene_length,
                   diff_clip, frames, earlier, evars, cvars, ovars, zvars>>

\* No entry within max_scene_length: the cut is chosen from the luma
\* differences.
AlignFallback ==
    /\ LoopRuns
    /\ LET h == head + 1
       IN /\ At(frames, h) - current_frame > max_scene_length
          /\ IF WindowRaises(diff_clip, clip_len, current_frame,
                             min_still_scene_length, max_scene_length)
             THEN /\ apc' = "raised"
                  /\ head' = h
                  /\ UNCHANGED <<current_frame, svt_av1_frames>>
             ELSE LET selected_frame ==
                         SelectedFrame(diff_clip, clip_len, current_frame,
                                       min_still_scene_length, max_scene_length)
                  IN /\ head' = h - 1
                     /\ current_frame' = selected_frame
                     /\ svt_av1_frames' = Append(svt_av1_frames, selected_frame)
                     /\ apc' = apc
    /\ UNCHANGED <<clip_len, min_scene_length, min_still_scene_length, max_scene_length,
                   diff_clip, frames, earlier, evars, cvars, ovars, zvars>>

\* svt_av1_frames.pop(); return
AlignReturn ==
    /\ apc = "loop"
    /\ ~LoopRuns
    /\ svt_av1_frames' = SubSeq(svt_av1_frames, 1, Len(svt_av1_frames) - 1)
    /\ apc' = "returned"
    /\ UNCHANGED <<clip_len, min_scene_length, min_still_scene_length, max_scene_length,
                   diff_clip, frames, head, current_frame, earlier, evars, cvars, ovars, zvars>>

\* A call that starts where the previous call stopped.
FirstFrame_Kept(c) == c

\* current_frame = 0 at the start of every call, whatever position c the
\* previous call ended at
FirstFrame(c) == 0

\* generate_svt_av1_keyframes is called again with the same clip and
\* parameters: generate_keyframes builds a new hint list, len(clip) is
\* appended to it, and the locals are initialised anew.
AlignRerun ==
    /\ apc = "returned"
    /\ earlier = <<>>
    /\ earlier' = svt_av1_frames
    /\ frames' = Append(SubSeq(frames, 1, Len(frames) - 1), clip_len)
    /\ head' = -1
    /\ current_frame' = FirstFrame(current_frame)
    /\ svt_av1_frames' = InitialKeyframes
    /\ apc' = "loop"
    /\ UNCHANGED <<clip_len, min_scene_length, min_still_scene_length, max_scene_length,
                   diff_clip, evars, cvars, ovars, zvars>>

\* ------------------------------------------------------------------------
\* generate_qp_file and the scene detection cache of SVTAV1.encode
\* ------------------------------------------------------------------------

\* Calls that consult a cache, per behaviour.
MaxCalls == 2

\* Frames of a clip handed to generate_qp_file.
QpClipLen == 4

\* Highest start frame handed to generate_qp_file.
MaxStart == 1

\* Scene-change hints of a clip handed to SVTAV1.encode as sd_clip.
MaxSdHints == 1

\* Path(get_workdir(), f"qpfile_{start_frame}.txt")
QpFilePath(start) == <<"qpfile", start>>

\* get_workdir() / "svt_av1_scene_detection_cache.npy"
SdCachePath == <<"svt_av1_scene_detection_cache", 0>>

CachePaths == {QpFilePath(st) : st \in 0 .. MaxStart} \cup {SdCachePath}

\* A cache file: its content, and the call parameters it was computed from.
CacheFile(content, origin) == [exists |-> TRUE, content |-> content, origin |-> origin]

NoCacheFile == [exists |-> FALSE, content |-> <<>>, origin |-> <<>>]

NoJob == [n |-> 0, fn |-> "none", clip |-> <<>>, start |-> 0, computed |-> FALSE, used |-> <<>>]

\* The locals of an invocation that has not started.
NoInvocation ==
    [pc |-> "idle", parts |-> <<>>, keyframes |-> <<>>, fout |-> 0, start_frame |-> 0,
     mkv_parts |-> <<>>, to_delete |-> {}, split_i |-> 0, scanned |-> <<>>,
     rc |-> 0, returncode |-> 0]

\* No zones are being handled.
ZonesOff ==
    /\ zpc = "off"
    /\ zones = <<>>
    /\ user_zones = <<>>
    /\ num_frames = 1
    /\ resume_at = 0

\* An empty working directory, no call made.
CacheOff ==
    /\ workdir = [p \in CachePaths |-> NoCacheFile]
    /\ job = NoJob

\* ------------------------------------------------------------------------
\* Specifications
\* ------------------------------------------------------------------------

EmptyDisk == [p \in Paths |-> NoFile]

InitLocals ==
    /\ pc = "idle"
    /\ parts = <<>>
    /\ keyframes = <<>>
    /\ fout = 0
    /\ start_frame = 0
    /\ mkv_parts = <<>>
    /\ to_delete = {}
    /\ split_i = 0
    /\ scanned = <<>>
    /\ faults = 0
    /\ rc = 0
    /\ returncode = 0

\* The aligner is not running.
AlignerOff ==
    /\ apc = "off"
    /\ clip_len = 1
    /\ min_scene_length = 1
    /\ min_still_scene_length = 1
    /\ max_scene_length = 1
    /\ diff_clip = <<0>>
    /\ frames = <<1>>
    /\ head = -1
    /\ current_frame = 0
    /\ svt_av1_frames = InitialKeyframes
    /\ earlier = <<>>

\* A working directory with no part files.
Init ==
    /\ disk = EmptyDisk
    /\ InitLocals
    /\ AlignerOff
    /\ CacheOff
    /\ other = NoInvocation
    /\ ZonesOff

Next ==
    \/ Scan
    \/ EncoderOpen
    \/ EncoderWrite
    \/ EncoderExit
    \/ KillEncoder
    \/ MergeSplit
    \/ MergeNoParts
    \/ MergeRemuxLast
    \/ MergeConcat
    \/ MergeExtract
    \/ MergeCleanup

Spec == Init /\ [][Next]_vars

\* ------------------------------------------------------------------------
\* Any working directory: part files left by anything, at any ordinals
\* ------------------------------------------------------------------------

\* Remux failures and kills inside merge_parts explored per behaviour.
MaxFaults == 1

\* Part files a directory may hold before the first invocation.
MaxAnyParts == 3

\* Longest such part file, in frames.
MaxAnyLen == 3

\* I-frame sets of a stream of l frames: frame 0 always is one.
IFrameSets(l) ==
    {S \in SUBSET (0 .. l - 1) : (l > 0) => 0 \in S}

AnyFiles ==
    {NoFile} \cup
    UNION {{File(FrameRun(0, l), ifr) : ifr \in IFrameSets(l)} : l \in 0 .. MaxAnyLen}

InitAny ==
    /\ \E c \in [0 .. MaxAnyParts - 1 -> AnyFiles] :
          disk = [p \in Paths |->
                    IF p[1] = "part" /\ p[2] < MaxAnyParts THEN c[p[2]] ELSE NoFile]
    /\ InitLocals
    /\ AlignerOff
    /\ CacheOff
    /\ other = NoInvocation
    /\ ZonesOff

SpecAny == InitAny /\ [][Next]_vars

\* A working directory that also holds a file {stem}_part_old.{ext} which no
\* invocation wrote.
InitForeign ==
    /\ \E c \in [0 .. MaxAnyParts - 2 -> AnyFiles] : \E g \in AnyFiles \ {NoFile} :
          disk = [p \in Paths |->
                    IF p[1] = "part" /\ p[2] < MaxAnyParts - 1 THEN c[p[2]]
                    ELSE IF p = PartPath(OldSuffix) THEN g
                    ELSE NoFile]
    /\ InitLocals
    /\ AlignerOff
    /\ CacheOff
    /\ other = NoInvocation
    /\ ZonesOff

SpecForeign == InitForeign /\ [][Next]_vars

\* ------------------------------------------------------------------------
\* Failing remux steps and kills inside merge_parts
\* ------------------------------------------------------------------------

\* A remux failure or a kill inside merge_parts is counted.
Fault ==
    /\ faults < MaxFaults
    /\ faults' = faults + 1

\* run_commandline(...) > 1 in the split loop: raise error(...)
SplitFails ==
    /\ pc = "merge"
    /\ split_i < ZipLen
    /\ Fault
    /\ rc' \in {st \in ExitStatuses : Failed(st)}
    /\ pc' = "merge_failed"
    /\ UNCHANGED <<disk, parts, keyframes, fout, start_frame, mkv_parts, to_delete, split_i, scanned, returncode, avars, cvars, ovars, zvars>>

\* run_commandline(...) > 1 for the remux of the last part
RemuxLastFails ==
    /\ pc = "merge"
    /\ split_i = ZipLen
    /\ Len(mkv_parts) >= 1
    /\ Fault
    /\ rc' \in {st \in ExitStatuses : Failed(st)}
    /\ pc' = "merge_failed"
    /\ UNCHANGED <<disk, parts, keyframes, fout, start_frame, mkv_parts, to_delete, split_i, scanned, returncode, avars, cvars, ovars, zvars>>

\* run_commandline(...) > 1 for the appending mkvmerge
ConcatFails ==
    /\ pc = "concat"
    /\ Fault
    /\ rc' \in {st \in ExitStatuses : Failed(st)}
    /\ pc' = "merge_failed"
    /\ UNCHANGED <<disk, parts, keyframes, fout, start_frame, mkv_parts, to_delete, split_i, scanned, returncode, avars, cvars, ovars, zvars>>

\* mkvextract writes straight to original_out; when it exits with an error
\* it may have written nothing, or any part of the track.
ExtractFails ==
    /\ pc = "extract"
    /\ Fault
    /\ rc' \in {st \in ExitStatuses : Failed(st)}
    /\ \/ UNCHANGED disk
       \/ \E k \in 0 .. Len(disk[OutMkv].frames) - 1 :
              disk' = [disk EXCEPT ![OutPath] = File(SubSeq(disk[OutMkv].frames, 1, k), {})]
    /\ pc' = "merge_failed"
    /\ UNCHANGED <<parts, keyframes, fout, start_frame, mkv_parts, to_delete, split_i, scanned, returncode, avars, cvars, ovars, zvars>>

\* The job is killed between two steps of merge_parts.
KillMerge ==
    /\ pc \in {"merge", "concat", "extract", "cleanup"}
    /\ Fault
    /\ pc' = "idle"
    /\ NoLocals
    /\ UNCHANGED <<disk, avars, cvars, ovars, zvars>>

\* The job is killed inside the final unlink loop: the set is iterated in
\* no particular order, so any proper subset of it may be gone already.
KillCleanup ==
    /\ pc = "cleanup"
    /\ Fault
    /\ \E S \in SUBSET to_delete :
          /\ S # to_delete
          /\ \E f \in S : disk[f].exists
          /\ disk' = Unlinked(disk, S)
    /\ pc' = "idle"
    /\ NoLocals
    /\ UNCHANGED <<avars, cvars, ovars, zvars>>

\* encode() is invoked again after an error.
Retry ==
    /\ pc \in {"merge_failed", "failed"}
    /\ pc' = "idle"
    /\ NoLocals
    /\ UNCHANGED <<disk, faults, avars, cvars, ovars, zvars>>

NextFail ==
    \/ Next
    \/ SplitFails
    \/ RemuxLastFails
    \/ ConcatFails
    \/ ExtractFails
    \/ KillMerge
    \/ KillCleanup
    \/ Retry

SpecFail == Init /\ [][NextFail]_vars

\* The locals of the running invocation.
Locals ==
    [pc |-> pc, parts |-> parts, keyframes |-> keyframes, fout |-> fout,
     start_frame |-> start_frame, mkv_parts |-> mkv_parts, to_delete |-> to_delete,
     split_i |-> split_i, scanned |-> scanned, rc |-> rc, returncode |-> returncode]

\* Two encode() invocations for one output in one working directory: the
\* scheduler suspends the running one and resumes the other. Nothing in
\* encode() or merge_parts takes a lock; the directory is all they share.
\* Two encoders that write one path are taken to produce one stream, the
\* frames either of them has flushed since the path was last opened.
Switch ==
    /\ other' = Locals
    /\ pc' = other.pc
    /\ parts' = other.parts
    /\ keyframes' = other.keyframes
    /\ fout' = other.fout
    /\ start_frame' = other.start_frame
    /\ mkv_parts' = other.mkv_parts
    /\ to_delete' = other.to_delete
    /\ split_i' = other.split_i
    /\ scanned' = other.scanned
    /\ rc' = other.rc
    /\ returncode' = other.returncode
    /\ UNCHANGED <<disk, faults, avars, cvars, zvars>>

\* Neither invocation is killed.
NextOverlap ==
    \/ Scan
    \/ EncoderOpen
    \/ EncoderWrite
    \/ EncoderExit
    \/ MergeSplit
    \/ MergeNoParts
    \/ MergeRemuxLast
    \/ MergeConcat
    \/ MergeExtract
    \/ MergeCleanup
    \/ Switch

SpecOverlap == Init /\ [][NextOverlap]_vars

\* An encoder that may exit with a failure status.
NextEncoderFails ==
    \/ Next
    \/ EncoderFails
    \/ Retry

SpecEncoderFails == Init /\ [][NextEncoderFails]_vars

\* Remux tools that may fail, no kill inside merge_parts.
NextStatus ==
    \/ Next
    \/ SplitFails
    \/ RemuxLastFails
    \/ ConcatFails
    \/ ExtractFails
    \/ Retry

SpecStatus == Init /\ [][NextStatus]_vars

\* ------------------------------------------------------------------------
\* Aligner inputs
\* ------------------------------------------------------------------------

\* Scene-change hints per clip.
MaxHints == 3

\* Luma-difference spikes per clip.
MaxSpikes == 2

\* Clips and parameter settings: length, the three scene lengths, and the
\* frames at which hints and luma spikes may sit.
Scenarios ==
    { [len |-> 70, min |-> 17, still |-> 9, max |-> 33,
       hints |-> {3, 9, 17, 18, 33, 50, 69}, spikes |-> {9, 17, 21, 25, 33, 50}],
      [len |-> 40, min |-> 5, still |-> 9, max |-> 34,
       hints |-> {3, 5, 9, 34, 39}, spikes |-> {9, 21, 25, 34}],
      [len |-> 40, min |-> 9, still |-> 20, max |-> 33,
       hints |-> {10, 35}, spikes |-> {}],
      [len |-> 300, min |-> 129, still |-> 193, max |-> 257,
       hints |-> {100, 129, 145, 161, 290}, spikes |-> {193, 225, 230, 257}],
      [len |-> 5, min |-> 1, still |-> 1, max |-> 5,
       hints |-> {1, 2, 3, 4}, spikes |-> {}],
      [len |-> 1, min |-> 2, still |-> 3, max |-> 4,
       hints |-> {}, spikes |-> {}] }

\* Luma difference of a frame: a flat or a slowly varying base, with a
\* spike of the given height at the frames of sp.
LumaSeries(n, varying, sp, height) ==
    [k \in 1 .. n |->
        IF (k - 1) \in sp THEN height
        ELSE IF varying THEN (k - 1) % 3 ELSE 0]

SpikeHeights == {3, 9}

BoundedSubsets(S, n) == {T \in SUBSET S : Cardinality(T) <= n}

InitAligner ==
    /\ disk = EmptyDisk
    /\ InitLocals
    /\ CacheOff
    /\ other = NoInvocation
    /\ ZonesOff
    /\ apc = "loop"
    /\ \E sc \in Scenarios :
          /\ clip_len = sc.len
          /\ min_scene_length = sc.min
          /\ min_still_scene_length = sc.still
          /\ max_scene_length = sc.max
          /\ \E hs \in BoundedSubsets(sc.hints, MaxHints) :
                frames = Append(SortedSeq(hs), sc.len)
          /\ \E sp \in BoundedSubsets(sc.spikes, MaxSpikes) :
             \E varying \in BOOLEAN :
             \E height \in SpikeHeights :
                diff_clip = LumaSeries(sc.len, varying, sp, height)
    /\ head = -1
    /\ current_frame = 0
    /\ svt_av1_frames = InitialKeyframes
    /\ earlier = <<>>

NextAligner ==
    \/ AlignSkip
    \/ AlignAcceptLast
    \/ AlignHintWindow
    \/ AlignFallback
    \/ AlignReturn

SpecAligner == InitAligner /\ [][NextAligner]_vars

NextRerun ==
    \/ NextAligner
    \/ AlignRerun

\* Two calls of generate_svt_av1_keyframes on the same inputs.
SpecRerun == InitAligner /\ [][NextRerun]_vars

\* ------------------------------------------------------------------------
\* Calls that consult the caches
\* ------------------------------------------------------------------------

\* A clip for generate_qp_file: the Scenechange property WWXD gives each frame.
QpClips == [1 .. QpClipLen -> BOOLEAN]

RECURSIVE KeyframesFrom(_, _, _)
\* for i in range(1, clip.num_frames): frames.append(i) when Scenechange == 1,
\* clip being the clip cut at start
KeyframesFrom(clip, start, i) ==
    IF i >= Len(clip) - start THEN <<>>
    ELSE (IF clip[start + i + 1] THEN <<i>> ELSE <<>>) \o KeyframesFrom(clip, start, i + 1)

\* A scan that starts at the first frame of the cut clip.
generate_keyframes_FromFirst(clip, start) == KeyframesFrom(clip, start, 0)

\* generate_keyframes(clip, start_frame)
generate_keyframes(clip, start) == KeyframesFrom(clip, start, 1)

\* out += f"{i} I -1\n" for every keyframe
QpLines(kfs) == [k \in 1 .. Len(kfs) |-> <<kfs[k], "I", -1>>]

\* generate_qp_file(clip, start_frame): reuse the file when it exists, else
\* generate the keyframes, write them and rename the file into place; the
\* encoder reads the file at the returned path.
GenerateQpFile ==
    /\ job.n < MaxCalls
    /\ apc = "off"
    /\ \E clip \in QpClips : \E start \in 0 .. MaxStart :
          LET filepath == QpFilePath(start)
              out == QpLines(generate_keyframes(clip, start))
          IN IF workdir[filepath].exists
             THEN /\ job' = [n |-> job.n + 1, fn |-> "qp", clip |-> clip, start |-> start,
                             computed |-> FALSE, used |-> workdir[filepath].content]
                  /\ UNCHANGED workdir
             ELSE /\ workdir' = [workdir EXCEPT ![filepath] = CacheFile(out, <<clip, start>>)]
                  /\ job' = [n |-> job.n + 1, fn |-> "qp", clip |-> clip, start |-> start,
                             computed |-> TRUE, used |-> out]
    /\ UNCHANGED <<evars, avars, ovars, zvars>>

\* The clip of Scenarios with the default scene lengths of
\* generate_svt_av1_keyframes, which SVTAV1.encode does not override.
SdScenario ==
    CHOOSE sc \in Scenarios : sc.min = 129 /\ sc.still = 193 /\ sc.max = 257

\* The clips given as sd_clip: their hint list and luma differences.
SdClips ==
    {<<SortedSeq(hs), LumaSeries(SdScenario.len, FALSE, {}, 0)>> :
        hs \in BoundedSubsets(SdScenario.hints, MaxSdHints)}

\* SVTAV1.encode with sd_clip: when the cache file exists it is loaded,
\* otherwise generate_svt_av1_keyframes(sd_clip) is called.
SvtSceneDetection ==
    /\ job.n < MaxCalls
    /\ apc = "off"
    /\ \E sd_clip \in SdClips :
          IF workdir[SdCachePath].exists
          THEN /\ job' = [n |-> job.n + 1, fn |-> "svt", clip |-> sd_clip, start |-> 0,
                          computed |-> FALSE, used |-> workdir[SdCachePath].content]
               /\ UNCHANGED avars
          ELSE /\ job' = [n |-> job.n + 1, fn |-> "svt", clip |-> sd_clip, start |-> 0,
                          computed |-> TRUE, used |-> <<>>]
               /\ apc' = "loop"
               /\ clip_len' = SdScenario.len
               /\ min_scene_length' = SdScenario.min
               /\ min_still_scene_length' = SdScenario.still
               /\ max_scene_length' = SdScenario.max
               /\ frames' = Append(sd_clip[1], SdScenario.len)
               /\ diff_clip' = sd_clip[2]
               /\ head' = -1
               /\ current_frame' = FirstFrame(current_frame)
               /\ svt_av1_frames' = InitialKeyframes
               /\ UNCHANGED earlier
    /\ UNCHANGED <<workdir, evars, ovars, zvars>>

\* np.save(cache, keyframes); keyframes = np.load(cache)
SvtStore ==
    /\ job.fn = "svt"
    /\ apc = "returned"
    /\ workdir' = [workdir EXCEPT ![SdCachePath] = CacheFile(svt_av1_frames, job.clip)]
    /\ job' = [job EXCEPT !.used = svt_av1_frames]
    /\ apc' = "off"
    /\ UNCHANGED <<clip_len, min_scene_length, min_still_scene_length, max_scene_length,
                   diff_clip, frames, head, current_frame, svt_av1_frames, earlier, evars, ovars, zvars>>

NextCache ==
    \/ GenerateQpFile
    \/ SvtSceneDetection
    \/ NextAligner
    \/ SvtStore

\* Calls of generate_qp_file and of the scene detection of SVTAV1.encode in
\* one working directory.
SpecCache == Init /\ [][NextCache]_vars

\* ------------------------------------------------------------------------
\* Zones: norm_zones, shift_zones and their use in _encode_clip
\* ------------------------------------------------------------------------

\* Longest clip whose zones are handled.
MaxZoneFrames == 2

\* Zones per list.
MaxZones == 2

\* A zone bound: None, or an integer.
None == <<>>

Some(v) == <<v>>

ZoneBounds == {None} \cup {Some(v) : v \in -(MaxZoneFrames + 1) .. MaxZoneFrames + 1}

\* A zone (start, end, *params)
Zone(st, en, params) == [start |-> st, end |-> en, params |-> params]

Zones == {Zone(st, en, pa) : st \in ZoneBounds, en \in ZoneBounds, pa \in {"b", "q"}}

ZoneLists == UNION {[1 .. l -> Zones] : l \in 0 .. MaxZones}

\* start is None -> 0; start < 0 -> max_frames - abs(start)
NormStart(b, max_frames) ==
    IF b = None THEN 0
    ELSE IF b[1] < 0 THEN max_frames - (-b[1]) ELSE b[1]

\* end is None -> max_frames - 1; end < 0 -> max_frames - abs(end)
NormEnd(b, max_frames) ==
    IF b = None THEN max_frames - 1
    ELSE IF b[1] < 0 THEN max_frames - (-b[1]) ELSE b[1]

RECURSIVE NormLoop(_, _, _)
\* for zone in zones: resolve the bounds, raise when start > end, append
\* (start, min(end, max_frames - 1), *params)
NormLoop(max_frames, zs, newzones) ==
    IF zs = <<>> THEN [raised |-> FALSE, zones |-> newzones]
    ELSE LET start == NormStart(zs[1].start, max_frames)
             end == NormEnd(zs[1].end, max_frames)
         IN IF start > end
            THEN [raised |-> TRUE, zones |-> <<>>]
            ELSE NormLoop(max_frames, Tail(zs),
                          Append(newzones,
                                 Zone(Some(start), Some(Min(end, max_frames - 1)),
                                      zs[1].params)))

\* norm_zones(clip_or_max_frames, zones)
norm_zones(max_frames, zs) == NormLoop(max_frames, zs, <<>>)

RECURSIVE ShiftLoop(_, _, _)
\* for zone in zones: shift both bounds by start_frame, skip the zone when
\* end < 0, raise start to 0
ShiftLoop(zs, start, newzones) ==
    IF zs = <<>> THEN newzones
    ELSE LET st == zs[1].start[1] - start
             en == zs[1].end[1] - start
         IN IF en < 0
            THEN ShiftLoop(Tail(zs), start, newzones)
            ELSE ShiftLoop(Tail(zs), start,
                           Append(newzones, Zone(Some(Max(st, 0)), Some(en), zs[1].params)))

\* shift_zones(zones, start_frame); None for no zones is the empty list here
shift_zones(zs, start) == ShiftLoop(zs, start, <<>>)

\* A call norm_zones(clip, self.zones) on the whole clip.
NormZones ==
    /\ zpc = "ready"
    /\ LET r == norm_zones(num_frames, zones)
       IN IF r.raised
          THEN zpc' = "raised" /\ UNCHANGED zones
          ELSE zpc' = "normed" /\ zones' = r.zones
    /\ UNCHANGED <<user_zones, num_frames, resume_at, evars, avars, cvars, ovars>>

\* _encode_clip(clip, out, qpfile, start_frame) as encode() calls it: clip
\* is clip[start_frame:] already; the zones are normalized against that
\* clip, then shifted when start_frame is not 0.
EncodeClipZones ==
    /\ zpc = "ready"
    /\ IF zones = <<>>
       THEN zpc' = "passed" /\ UNCHANGED zones
       ELSE LET r == norm_zones(num_frames - resume_at, zones)
            IN IF r.raised
               THEN zpc' = "raised" /\ UNCHANGED zones
               ELSE /\ zpc' = "passed"
                    /\ zones' = IF resume_at # 0
                                THEN shift_zones(r.zones, resume_at)
                                ELSE r.zones
    /\ UNCHANGED <<user_zones, num_frames, resume_at, evars, avars, cvars, ovars>>

\* An encoder object with zones, and an invocation about to run the
\* encoder from frame resume_at of the clip.
InitZones ==
    /\ disk = EmptyDisk
    /\ InitLocals
    /\ AlignerOff
    /\ CacheOff
    /\ other = NoInvocation
    /\ zpc = "ready"
    /\ user_zones \in ZoneLists
    /\ zones = user_zones
    /\ num_frames \in 1 .. MaxZoneFrames
    /\ resume_at \in 0 .. num_frames - 1

NextZones ==
    \/ NormZones
    \/ EncodeClipZones

SpecZones == InitZones /\ [][NextZones]_vars

\* ------------------------------------------------------------------------
\* Claims
\* ------------------------------------------------------------------------

FullClip == FrameRun(0, NumFrames)

\* A part whose only keyframe is at index 0.
OnlyKeyframeZero(f) == f.exists /\ parse_keyframes(f) = <<0>>

\* A part with a keyframe after index 0.
ValidPart(f) == f.exists /\ ~ProbeRaises(f) /\ LastKeyframe(f) > 0

RECURSIVE ValidSum(_, _)
\* Sum of the last-keyframe indices of the valid parts among ordinals ns.
ValidSum(d, ns) ==
    IF ns = <<>> THEN 0
    ELSE (IF ValidPart(d[PartPath(ns[1])]) THEN LastKeyframe(d[PartPath(ns[1])]) ELSE 0)
            + ValidSum(d, Tail(ns))

RECURSIVE TruncatedConcat(_, _, _)
\* The first kfs[j] frames of each part ps[j], in list order.
TruncatedConcat(d, ps, kfs) ==
    IF ps = <<>> \/ kfs = <<>> THEN <<>>
    ELSE SubSeq(d[PartPath(ps[1])].frames, 1, kfs[1])
            \o TruncatedConcat(d, Tail(ps), Tail(kfs))

\* C1: starting from a directory without part files, whatever the points at
\* which the earlier invocations were killed while the encoder was running,
\* the output of the invocation that completes holds frames 0..N-1 of the
\* clip, each once and in order.
C1_CrashRecovery ==
    pc = "done" => /\ disk[OutPath].exists
                   /\ disk[OutPath].frames = FullClip

\* A completed job that recovered two killed invocations.
C1_Witness ==
    /\ pc = "done"
    /\ Len(parts) = 2
    /\ disk[OutPath].frames = FullClip

\* C2: for every set of part files in the working directory, the start
\* frame of the new encoder invocation is the sum of the last-keyframe
\* indices of all valid parts, wherever the invalid parts sit.
C2_ResumePoint ==
    pc = "spawn" => start_frame = ValidSum(disk, scanned)

\* C3: every discovered part whose only keyframe is at index 0 is deleted
\* from disk upon discovery, is excluded from the resume-point sum and is
\* never among the parts merge_parts splits and concatenates.
C3_DiscardCorrectness ==
    pc = "spawn" =>
        /\ \A k \in 1 .. Len(scanned) : ~OnlyKeyframeZero(disk[PartPath(scanned[k])])
        /\ start_frame = ValidSum(disk, scanned)
        /\ \A k \in 1 .. ZipLen : ~OnlyKeyframeZero(disk[PartPath(parts[k])])

\* C8: when merge_parts succeeds, the output holds the first kf_j frames of
\* each prior part p_j, in order, followed by all frames of the final part:
\* kf_0 + ... + kf_{k-1} + F frames, none duplicated or dropped at a splice.
C8_MergeRoundTrip ==
    [][/\ (pc = "extract" /\ pc' = "cleanup") =>
            /\ disk'[OutPath].frames =
                  TruncatedConcat(disk, parts, keyframes) \o disk[PartPath(fout)].frames
            /\ Len(disk'[OutPath].frames) =
                  SumSeq(keyframes) + Len(disk[PartPath(fout)].frames)
       /\ (pc = "merge" /\ pc' = "done") =>
            disk'[OutPath].frames = disk[PartPath(fout)].frames]_vars

\* A merge of two prior parts and a final part has produced its output.
C8_Witness ==
    /\ pc = "cleanup"
    /\ Len(parts) = 2
    /\ Len(keyframes) = 2
    /\ Len(disk[OutPath].frames) =
          keyframes[1] + keyframes[2] + Len(disk[PartPath(fout)].frames)

\* The output path holds part of the merged track only.
PartialOutput ==
    /\ disk[OutPath].exists
    /\ disk[OutMkv].exists
    /\ Len(disk[OutPath].frames) < Len(disk[OutMkv].frames)

\* C9: when a remux step of merge_parts fails, merge_parts raises, every
\* original part file and the final part file are still present, and no
\* partially written file is visible at the final output path.
C9_AbortedMerge ==
    pc = "merge_failed" =>
        /\ \A k \in 1 .. Len(parts) : disk[PartPath(parts[k])].exists
        /\ disk[PartPath(fout)].exists
        /\ ~PartialOutput

\* No part file and no container intermediate is left.
NoLeftovers ==
    \A p \in Paths : disk[p].exists => p = OutPath

\* C10: a job stopped inside merge_parts leaves the directory either fully
\* failed (no new output file) or fully successful (complete output, old
\* files gone), and no later invocation produces an output with missing or
\* duplicated frames.
C10_AllOrNothing ==
    /\ pc \in {"idle", "merge_failed"} =>
          \/ ~disk[OutPath].exists
          \/ disk[OutPath].frames = FullClip /\ NoLeftovers
    /\ pc = "done" => disk[OutPath].frames = FullClip

\* One keyframe list as returned: starts at 0, strictly increasing.
StartsAtZeroIncreasing(l) ==
    /\ Len(l) >= 1
    /\ l[1] = 0
    /\ \A k \in 1 .. Len(l) - 1 : l[k] < l[k + 1]

\* C4: the keyframe list returned by generate_svt_av1_keyframes begins with
\* frame 0 and is strictly increasing, without duplicates.
C4_KeyframeList ==
    apc = "returned" => StartsAtZeroIncreasing(svt_av1_frames)

\* A returned list of at least three keyframes, one of them a fallback cut.
C4_Witness ==
    /\ apc = "returned"
    /\ Len(svt_av1_frames) >= 3
    /\ \E k \in 2 .. Len(svt_av1_frames) : svt_av1_frames[k] \notin Range(frames)

\* Every gap between consecutive keyframes of l lies in [lo, hi].
GapsWithin(l, lo, hi) ==
    \A k \in 1 .. Len(l) - 1 : lo <= l[k + 1] - l[k] /\ l[k + 1] - l[k] <= hi

\* C5 (as claimed): every gap between consecutive emitted keyframes lies in
\* [min_scene_length, max_scene_length]; only the final gap to the clip end
\* may be shorter.
C5_GapBound_Claimed ==
    apc = "returned" =>
        /\ GapsWithin(svt_av1_frames, min_scene_length, max_scene_length)
        /\ clip_len - svt_av1_frames[Len(svt_av1_frames)] <= max_scene_length

\* C5 (amended): every gap between consecutive emitted keyframes is at most
\* max_scene_length and at least the smaller of min_scene_length and
\* min_still_scene_length (a fallback cut is only min_still_scene_length
\* away from the previous keyframe); the final gap to the clip end is at
\* most max_scene_length.
C5_GapBound ==
    apc = "returned" =>
        /\ GapsWithin(svt_av1_frames,
                      Min(min_scene_length, min_still_scene_length), max_scene_length)
        /\ clip_len - svt_av1_frames[Len(svt_av1_frames)] <= max_scene_length

\* A returned list with a gap below min_scene_length, made by the fallback.
C5_Witness ==
    /\ apc = "returned"
    /\ \E k \in 1 .. Len(svt_av1_frames) - 1 :
          /\ svt_av1_frames[k + 1] - svt_av1_frames[k] < min_scene_length
          /\ svt_av1_frames[k + 1] - svt_av1_frames[k] >= min_still_scene_length

\* The order in which the hint window prefers structures.
HintPreference == <<32, 16, 8, 4, 2>>

\* The order in which the fallback prefers structures.
FallbackPreference == <<32, 16, 8>>

SetMax(S) == CHOOSE m \in S : \A x \in S : x <= m

\* The latest member of cands at offset 1 modulo the first structure of
\* order that any member matches; otherwise dflt.
PreferredOf(cands, c, order, dflt) ==
    LET matches(k) == {x \in cands : (x - c) % order[k] = 1}
        hit == {k \in 1 .. Len(order) : matches(k) # {}}
    IN IF hit = {} THEN dflt
       ELSE SetMax(matches(CHOOSE k \in hit : \A j \in hit : k <= j))

\* The pending entries within max_scene_length of the current position.
Candidates ==
    {frames[k] : k \in {j \in head + 2 .. Len(frames) :
                          frames[j] - current_frame <= max_scene_length}}

\* The next pending entry lies in [min_scene_length, max_scene_length].
InHintWindow ==
    /\ LoopRuns
    /\ frames[head + 2] - current_frame >= min_scene_length
    /\ frames[head + 2] - current_frame <= max_scene_length

\* The pending hints (the clip-length entry excluded) within
\* max_scene_length of the current position.
HintCandidates ==
    {frames[k] : k \in {j \in head + 2 .. Len(frames) - 1 :
                          frames[j] - current_frame <= max_scene_length}}

InFallback ==
    /\ LoopRuns
    /\ frames[head + 2] - current_frame > max_scene_length
    /\ ~WindowRaises(diff_clip, clip_len, current_frame,
                     min_still_scene_length, max_scene_length)

Ordinal(p) == p[2]

\* C11: for every set of part files found in the working directory,
\* merge_parts appends the retained segments in ascending ordinal order of
\* their part files, and the newly finished part comes last.
C11_ConcatenationOrder ==
    pc = "concat" =>
        /\ \A i, j \in 1 .. Len(mkv_parts) :
              i < j => Ordinal(mkv_parts[i]) <= Ordinal(mkv_parts[j])
        /\ mkv_parts[Len(mkv_parts)] = AsMkv(fout)

\* Some part of the listing ns is valid.
AnyValid(d, ns) == \E k \in 1 .. Len(ns) : ValidPart(d[PartPath(ns[k])])

\* C13: with no part file or only invalid ones the encoder starts at frame 0
\* and its part becomes the output without a remux step; with at least one
\* valid part the encoder starts at the strictly positive sum offset.
C13_RestartOrResume ==
    /\ pc = "spawn" =>
          IF AnyValid(disk, scanned)
          THEN start_frame > 0 /\ start_frame = ValidSum(disk, scanned)
          ELSE start_frame = 0
    /\ pc \in {"concat", "extract", "cleanup"} => start_frame > 0

\* C14: the part written by the new invocation is part_{len(parts)}, and its
\* path differs from the path of every kept part and of every valid part on
\* disk.
C14_PartNaming ==
    pc = "spawn" =>
        /\ fout = Len(parts)
        /\ fout \notin Range(parts)
        /\ \A k \in 1 .. Len(scanned) :
              ValidPart(disk[PartPath(scanned[k])]) => scanned[k] # fout

\* A part on which parse_keyframes(p)[-1] raises.
Unreadable(f) == f.exists /\ ProbeRaises(f)

\* C19: a part on which the keyframe probe raises or finds no keyframe is
\* discarded and deleted from disk, adds nothing to the resume offset, and
\* the invocation goes on to start the encoder.
C19_ValidationAbsorbed ==
    /\ pc = "spawn" =>
          /\ \A k \in 1 .. Len(scanned) : ~Unreadable(disk[PartPath(scanned[k])])
          /\ \A k \in 1 .. Len(parts) : ~Unreadable(disk[PartPath(parts[k])])
          /\ start_frame = ValidSum(disk, scanned)
    /\ pc = "failed" => ~(\E k \in 1 .. Len(scanned) : Unreadable(disk[PartPath(scanned[k])]))

\* The part files handed to merge_parts.
MergeInputs == {PartPath(parts[k]) : k \in 1 .. Len(parts)} \cup {PartPath(fout)}

\* The -001/-002 containers of the parts that were split.
SplitRemnants == UNION {{Mkv001(parts[k]), Mkv002(parts[k])} : k \in 1 .. ZipLen}

\* The container of the final part and the concatenated container.
Intermediates == {AsMkv(fout), OutMkv}

\* C20: when merge_parts completes with at least one prior part, none of the
\* part files, the final part, the -001/-002 containers and the intermediate
\* containers remains, and the output path holds the merged stream.
C20_CleanupOnSuccess ==
    [][(pc = "cleanup" /\ pc' = "done") =>
          /\ \A p \in MergeInputs \cup SplitRemnants \cup Intermediates : ~disk'[p].exists
          /\ disk'[OutPath].exists
          /\ disk'[OutPath].frames = ConcatFrames(disk, mkv_parts)]_vars

\* A merge of two prior parts and a final part has completed and removed
\* its inputs.
C20_Witness ==
    /\ pc = "done"
    /\ Len(keyframes) = 2
    /\ disk[OutPath].exists
    /\ \A p \in MergeInputs \cup SplitRemnants \cup Intermediates : ~disk[p].exists

\* The next pending entry is closer than min_scene_length.
NextTooClose ==
    /\ LoopRuns
    /\ frames[head + 2] - current_frame < min_scene_length

\* The scene-change hints: the list without the appended len(clip).
Hints == {frames[k] : k \in 1 .. Len(frames) - 1}

\* C17 (as claimed): a hint closer than min_scene_length to the current
\* position is skipped and is not in the returned list, unless it is the
\* last hint, which is accepted and is in the returned list.
C17_MinimumLength_Claimed ==
    /\ [][(NextTooClose /\ head + 2 < Len(frames)) =>
             IF head + 2 = Len(frames) - 1
             THEN svt_av1_frames' = Append(svt_av1_frames, frames[head + 2])
             ELSE svt_av1_frames' = svt_av1_frames]_vars
    /\ [](apc = "returned" =>
             \A k \in 1 .. Len(svt_av1_frames) - 1 :
                svt_av1_frames[k + 1] \in Hints =>
                   svt_av1_frames[k + 1] - svt_av1_frames[k] >= min_scene_length)

\* C17 (amended): a hint closer than min_scene_length to the current
\* position is skipped, the last hint included: nothing is appended and the
\* current position stays. Only the clip length appended after the hints is
\* accepted when it is too close, and the final pop removes it, so it is not
\* in the returned list. A hint that close to the keyframe before it is in
\* the returned list only as a fallback cut, at least
\* min_still_scene_length after that keyframe.
C17_MinimumLength ==
    /\ [][NextTooClose =>
             IF head + 2 = Len(frames)
             THEN /\ svt_av1_frames' = Append(svt_av1_frames, clip_len)
                  /\ head' = head + 1
             ELSE /\ svt_av1_frames' = svt_av1_frames
                  /\ current_frame' = current_frame
                  /\ head' = head + 1]_vars
    /\ [](apc = "returned" =>
             /\ clip_len \notin Range(svt_av1_frames)
             /\ \A k \in 1 .. Len(svt_av1_frames) - 1 :
                   (/\ svt_av1_frames[k + 1] \in Hints
                    /\ svt_av1_frames[k + 1] - svt_av1_frames[k] < min_scene_length)
                   => svt_av1_frames[k + 1] - svt_av1_frames[k] >= min_still_scene_length)

\* The last hint was closer than min_scene_length to the keyframe before it
\* and is not in the returned list; the clip length was accepted too close
\* and popped.
C17_Witness ==
    /\ apc = "returned"
    /\ Len(frames) >= 2
    /\ LET last == frames[Len(frames) - 1]
       IN /\ last \notin Range(svt_av1_frames)
          /\ \E k \in 1 .. Len(svt_av1_frames) :
                /\ svt_av1_frames[k] < last
                /\ last - svt_av1_frames[k] < min_scene_length
                /\ (k < Len(svt_av1_frames) => svt_av1_frames[k + 1] > last)
    /\ clip_len - svt_av1_frames[Len(svt_av1_frames)] < min_scene_length

\* No candidate of the hint window is at offset 1 modulo any structure.
NoStructureMatch ==
    \A x \in Candidates : \A k \in 1 .. Len(HintPreference) :
        (x - current_frame) % HintPreference[k] # 1

\* Frames left after the current position, weighted over the entries left
\* after head.
LoopMeasure ==
    (clip_len - current_frame) * (Len(frames) + 1) + (Len(frames) - 1 - head)

\* C18: the loop of generate_svt_av1_keyframes terminates: every iteration
\* that stays in the loop strictly decreases a measure that is never
\* negative, so the loop exits after finitely many iterations; every
\* accepted position is strictly greater than the current position before
\* it; a hint window with one candidate and no structure match accepts that
\* candidate.
C18_NeverStalls ==
    /\ [](apc = "loop" => LoopMeasure >= 0)
    /\ [][(apc = "loop" /\ apc' = "loop") => LoopMeasure' < LoopMeasure]_vars
    /\ [][Len(svt_av1_frames') = Len(svt_av1_frames) + 1 =>
             /\ current_frame' > current_frame
             /\ current_frame' = svt_av1_frames'[Len(svt_av1_frames')]]_vars
    /\ [][(InHintWindow /\ Cardinality(Candidates) = 1 /\ NoStructureMatch) =>
             /\ {current_frame'} = Candidates
             /\ Len(svt_av1_frames') = Len(svt_av1_frames) + 1]_vars

\* From position 0 the single candidate 10, at offset 1 modulo none of the
\* structures, was accepted, and the loop has exited.
C18_Witness ==
    /\ apc = "returned"
    /\ frames[1] = 10
    /\ Len(frames) >= 2
    /\ frames[2] - 0 > max_scene_length
    /\ min_scene_length <= 10
    /\ Len(svt_av1_frames) >= 2
    /\ svt_av1_frames[2] = 10

RunsTool ==
    \/ pc = "merge" /\ (split_i < ZipLen \/ Len(mkv_parts) >= 1)
    \/ pc \in {"concat", "extract"}

\* C12 (as claimed): every remux invocation of merge_parts that returns a
\* non-zero exit status aborts the merge with an error.
C12_ExitStatus_Claimed ==
    [][(RunsTool /\ pc' # "idle" /\ rc' # 0) => pc' = "merge_failed"]_vars

\* C12 (amended): a remux invocation of merge_parts aborts the merge with an
\* error exactly when its exit status is greater than 1; exit status 1 is
\* taken for success and the merge goes on.
C12_ExitStatus ==
    [][(RunsTool /\ pc' # "idle") => (pc' = "merge_failed" <=> rc' > 1)]_vars

\* The extraction returned an error status after the split, the remux and
\* the concatenation were accepted, and the merge was aborted.
C12_Witness ==
    /\ pc = "merge_failed"
    /\ rc = 2
    /\ disk[OutMkv].exists
    /\ Len(mkv_parts) >= 2

\* A call that consults a cache starts.
CallStarts == job'.n = job.n + 1

\* The cache file the call looks for.
CacheOf(j) == IF j.fn = "qp" THEN QpFilePath(j.start) ELSE SdCachePath

\* The parameters a cache entry has to have been computed from to serve
\* call j.
ParamsOf(j) == IF j.fn = "qp" THEN <<j.clip, j.start>> ELSE j.clip

\* C16: a call that finds its cache file does not run the scene-change
\* computation and uses the cached content, and that content was computed
\* for the call's own parameters (start frame, clip); a call that does not
\* find it computes the result and stores it.
C16_CacheShortCircuit ==
    [][/\ CallStarts =>
            IF workdir[CacheOf(job')].exists
            THEN /\ ~job'.computed
                 /\ job'.used = workdir[CacheOf(job')].content
                 /\ workdir' = workdir
                 /\ workdir[CacheOf(job')].origin = ParamsOf(job')
            ELSE /\ job'.computed
                 /\ job'.fn = "qp" =>
                       /\ workdir'[CacheOf(job')].exists
                       /\ job'.used = workdir'[CacheOf(job')].content
       /\ (job.fn = "svt" /\ apc = "returned" /\ apc' = "off") =>
            /\ workdir'[SdCachePath].exists
            /\ workdir'[SdCachePath].content = svt_av1_frames
            /\ job'.used = svt_av1_frames]_vars

\* C21: a cut chosen by the fallback from position c lies in
\* [c + min_still_scene_length, c + max_scene_length]; the luma samples read
\* are those of exactly that frame range, which ends before the clip end;
\* the cut is strictly before the next pending entry (hint or clip end).
C21_FallbackRange ==
    [][InFallback =>
          /\ current_frame' >= current_frame + min_still_scene_length
          /\ current_frame' <= current_frame + max_scene_length
          /\ Len(Diffs(diff_clip, clip_len, current_frame,
                       min_still_scene_length, max_scene_length))
                = max_scene_length - min_still_scene_length + 1
          /\ current_frame + max_scene_length <= clip_len - 1
          /\ current_frame' < frames[head + 2]
          /\ current_frame' < clip_len]_vars

\* The fallback has just cut at a motion frame short of the forced cut.
C21_Witness ==
    /\ apc = "loop"
    /\ Len(svt_av1_frames) >= 2
    /\ LET cut == svt_av1_frames[Len(svt_av1_frames)]
           prev == svt_av1_frames[Len(svt_av1_frames) - 1]
       IN /\ cut = current_frame
          /\ cut \notin Range(frames)
          /\ cut - prev >= min_still_scene_length
          /\ cut - prev < max_scene_length

\* C27: at the call to merge_parts, for every set of part files found, the
\* keyframes list and the parts list have the same length and keyframes[j]
\* is the last keyframe index of parts[j].
C27_PartKeyframePairing ==
    (pc = "merge" /\ split_i = 0) =>
        /\ Len(keyframes) = Len(parts)
        /\ \A j \in 1 .. ZipLen :
              LET f == disk[PartPath(parts[j])]
              IN ~ProbeRaises(f) /\ keyframes[j] = LastKeyframe(f)

\* C28: starting from a directory without part files, with invocations
\* killed only while the encoder runs, at the start of every invocation the
\* part files have the ordinals 0..n-1 and every part but the highest is
\* valid.
C28_ReachableDirectory ==
    pc = "idle" =>
        LET ps == DiscoverParts(disk)
        IN /\ \A k \in 1 .. Len(ps) : ps[k] = k - 1
           /\ \A k \in 1 .. Len(ps) - 1 : ValidPart(disk[PartPath(ps[k])])

\* An invocation starts with a valid part_000 and an invalid part_001.
C28_Witness ==
    /\ pc = "idle"
    /\ DiscoverParts(disk) = <<0, 1>>
    /\ ValidPart(disk[PartPath(0)])
    /\ ~ValidPart(disk[PartPath(1)])

\* A step of the loop that is not a fallback step appends an entry.
AppendsOutsideFallback ==
    /\ LoopRuns
    /\ frames[head + 2] - current_frame <= max_scene_length
    /\ Len(svt_av1_frames') = Len(svt_av1_frames) + 1

\* C29: the element removed by the final pop is the clip length appended to
\* the hints; every emitted keyframe is below the clip length; every
\* keyframe appended outside the fallback is an entry of the list (a hint,
\* or the clip length that is popped); the last emitted keyframe is at most
\* max_scene_length before the clip end.
C29_ClipEndSentinel ==
    /\ [][(apc = "loop" /\ apc' = "returned") =>
             /\ Len(svt_av1_frames) >= 2
             /\ svt_av1_frames[Len(svt_av1_frames)] = clip_len
             /\ svt_av1_frames' = SubSeq(svt_av1_frames, 1, Len(svt_av1_frames) - 1)]_vars
    /\ [][AppendsOutsideFallback => current_frame' \in Range(frames)]_vars
    /\ [](apc = "returned" =>
             /\ Len(svt_av1_frames) >= 1
             /\ \A k \in 1 .. Len(svt_av1_frames) : svt_av1_frames[k] < clip_len
             /\ \A k \in 2 .. Len(svt_av1_frames) :
                   svt_av1_frames[k] \in Hints
                   \/ svt_av1_frames[k] - svt_av1_frames[k - 1] >= min_still_scene_length
             /\ clip_len - svt_av1_frames[Len(svt_av1_frames)] <= max_scene_length)

\* A returned list with a hint and a fallback cut, the clip length popped.
C29_Witness ==
    /\ apc = "returned"
    /\ head = Len(frames) - 1
    /\ current_frame = clip_len
    /\ \E k \in 2 .. Len(svt_av1_frames) : svt_av1_frames[k] \in Hints
    /\ \E k \in 2 .. Len(svt_av1_frames) : svt_av1_frames[k] \notin Hints

\* C22: when the encoder process exits with a failure status the job ends
\* with an error: merge_parts is not run, no earlier part is deleted and
\* nothing is put at the final path.
C22_EncoderFailure ==
    /\ [](returncode # 0 => pc = "failed")
    /\ [][returncode' # 0 =>
             /\ \A n \in Ords : disk[PartPath(n)].exists => disk'[PartPath(n)].exists
             /\ disk'[OutPath] = disk[OutPath]]_vars

\* A zone (a, b) with 0 <= a <= b < n.
ProperZone(z, n) ==
    /\ z.start # None
    /\ z.end # None
    /\ 0 <= z.start[1]
    /\ z.start[1] <= z.end[1]
    /\ z.end[1] < n

RECURSIVE ShiftedZones(_, _)
\* The zones that reach frame s, each as (max(a - s, 0), b - s, ...).
ShiftedZones(zs, s) ==
    IF zs = <<>> THEN <<>>
    ELSE (IF zs[1].end[1] >= s
          THEN <<Zone(Some(Max(zs[1].start[1] - s, 0)), Some(zs[1].end[1] - s), zs[1].params)>>
          ELSE <<>>) \o ShiftedZones(Tail(zs), s)

\* C23: on a resumed encode from frame s > 0 of a clip of N frames, every
\* user zone (a, b) with 0 <= a <= b < N that reaches [s, N-1] is passed as
\* (max(a - s, 0), b - s), zones ending before s are dropped, the order is
\* kept and nothing is raised.
C23_ZoneShifting ==
    (/\ zpc \in {"passed", "raised"}
     /\ resume_at > 0
     /\ \A k \in 1 .. Len(user_zones) : ProperZone(user_zones[k], num_frames)) =>
        /\ zpc = "passed"
        /\ zones = ShiftedZones(user_zones, resume_at)

\* C26: every list norm_zones accepts comes back with as many zones, in
\* input order with their parameters, and each with
\* 0 <= start <= end <= max_frames - 1.
C26_NormZonesRange ==
    zpc = "normed" =>
        /\ Len(zones) = Len(user_zones)
        /\ \A k \in 1 .. Len(zones) :
              /\ zones[k].params = user_zones[k].params
              /\ 0 <= zones[k].start[1]
              /\ zones[k].start[1] <= zones[k].end[1]
              /\ zones[k].end[1] <= num_frames - 1

\* The positions g - s of the scene changes at the frames g > s of the clip.
ScenePositions(clip, s) ==
    SortedSeq({g - s : g \in {h \in s + 1 .. Len(clip) - 1 : clip[h + 1]}})

\* C30: a call of generate_qp_file for a resumed invocation (start frame
\* s > 0) hands the encoder the content of qpfile_{s}.txt, a file generated
\* for start frame s; its positions are strictly increasing and never 0; and
\* when the file was generated from the invocation's qp_clip it lists
\* exactly the positions g - s of the scene changes at the frames g > s.
C30_ForcedKeyframes ==
    [][(CallStarts /\ job'.fn = "qp" /\ job'.start > 0) =>
          LET s == job'.start
              f == workdir'[QpFilePath(s)]
              used == job'.used
          IN /\ f.exists
             /\ used = f.content
             /\ f.origin[2] = s
             /\ \A k \in 1 .. Len(used) :
                   /\ used[k][1] >= 1
                   /\ (k > 1) => used[k - 1][1] < used[k][1]
             /\ (f.origin[1] = job'.clip) =>
                   used = QpLines(ScenePositions(job'.clip, s))]_vars

\* A resumed call reuses a file generated from its own clip, two positions.
C30_Witness ==
    /\ job.fn = "qp"
    /\ job.start > 0
    /\ job.n = 2
    /\ ~job.computed
    /\ workdir[QpFilePath(job.start)].origin = <<job.clip, job.start>>
    /\ Len(job.used) >= 2
    /\ job.used = QpLines(ScenePositions(job.clip, job.start))

\* C24: discovery takes a file for a part only when its suffix is a
\* three-digit decimal ordinal, and no step deletes or overwrites a file
\* that is neither such a part, nor a container derived from one, nor the
\* output or its container.
C24_DeletionScope ==
    /\ [](Range(scanned) \subseteq Ords /\ Range(parts) \subseteq Ords)
    /\ [][\A p \in Paths : (p[2] = OldSuffix) => disk'[p] = disk[p]]_vars

\* Both invocations have chosen the same part path and their encoders have
\* it open.
BothWriteSamePart ==
    /\ pc = "encoding"
    /\ other.pc = "encoding"
    /\ fout = other.fout

\* The running invocation is about to split the part the other one writes.
SplitsPartBeingWritten ==
    /\ other.pc = "encoding"
    /\ pc = "merge"
    /\ split_i < ZipLen
    /\ parts[split_i + 1] = other.fout

\* C25: two overlapping invocations for one stem never both write the same
\* part file, and neither splits, deletes or renames a part file the other
\* is still writing.
C25_NoConcurrentAttempts ==
    /\ [](~BothWriteSamePart)
    /\ [](~SplitsPartBeingWritten)
    /\ [][(other.pc = "encoding" /\ other' = other
             /\ pc \in {"merge", "concat", "extract", "cleanup"}) =>
            disk'[PartPath(other.fout)] = disk[PartPath(other.fout)]]_vars

====
